---- MODULE Spec2Model ----
(***************************************************************************)
(* Reminder scheduler of KBC-rakv0-announce: the page script (script.js)   *)
(* that stores reminders in localStorage and arms one setTimeout per       *)
(* reminder, and the service worker (sw.js) that mirrors the list.         *)
(*                                                                         *)
(* Instants are whole seconds since the Unix epoch.  Every duration the    *)
(* code uses (60*1000 ms, 5000 ms, ...) is a whole number of seconds, and   *)
(* Date.now() is the model's clock reading `now`.  The host's local time   *)
(* zone is taken to be UTC (the code ignores the stored tz, see            *)
(* computeNextAtTime).                                                     *)
(***************************************************************************)
EXTENDS Integers, Sequences, FiniteSets, TLC

(***************************************************************************)
(* Host calendar: what the Date object does for the calls the code makes.  *)
(***************************************************************************)
SecPerMinute == 60
SecPerHour == 60 * SecPerMinute
SecPerDay == 24 * SecPerHour

\* days since 1970-01-01 of the civil date y-m-d (m in 1..12; d may run past
\* the month's end, as Date's day overflow does)
DaysFromCivil(y, m, d) ==
  LET yy  == IF m <= 2 THEN y - 1 ELSE y
      era == yy \div 400
      yoe == yy - era * 400
      mp  == IF m > 2 THEN m - 3 ELSE m + 9
      doy == (153 * mp + 2) \div 5 + d - 1
      doe == yoe * 365 + yoe \div 4 - yoe \div 100 + doy
  IN  era * 146097 + doe - 719468

\* the civil date [y, m, d] of a day number
CivilFromDays(z) ==
  LET zz  == z + 719468
      era == zz \div 146097
      doe == zz - era * 146097
      yoe == (doe - doe \div 1460 + doe \div 36524 - doe \div 146096) \div 365
      doy == doe - (365 * yoe + yoe \div 4 - yoe \div 100)
      mp  == (5 * doy + 2) \div 153
      d   == doy - (153 * mp + 2) \div 5 + 1
      m   == IF mp < 10 THEN mp + 3 ELSE mp - 9
      y   == yoe + era * 400 + (IF m <= 2 THEN 1 ELSE 0)
  IN  [y |-> y, m |-> m, d |-> d]

DayOf(t) == t \div SecPerDay

\* the instant (UTC) of a civil date and time of day
At(y, m, d, hh, mm, ss) ==
  DaysFromCivil(y, m, d) * SecPerDay + hh * SecPerHour + mm * SecPerMinute + ss

\* The host's time zone.  Date works on local time: "UTC" has no offset,
\* "Europe/London" is one hour ahead of UTC between the last Sundays of March
\* and October (01:00 UTC).
VARIABLE host
Zones == {"UTC", "Europe/London"}
DstStart == At(2026, 3, 29, 1, 0, 0)
DstEnd == At(2026, 10, 25, 1, 0, 0)
Offset(t) ==
  IF host = "Europe/London" /\ t >= DstStart /\ t < DstEnd THEN SecPerHour ELSE 0
\* LocalTime(t) of ECMA-262
LocalTime(t) == t + Offset(t)
\* UTC(tlocal) of ECMA-262: a local time that occurs twice (the clocks were
\* set back) or never (they were set forward) is read with the offset in
\* force before the transition
UTC(l) ==
  LET summer == l - SecPerHour
      winter == l
  IN  IF Offset(summer) = SecPerHour THEN summer
      ELSE IF Offset(winter) = 0 THEN winter
      ELSE winter

\* Date.prototype.getDate / getMonth (0-based) / getFullYear / getDay
getDate(t) == CivilFromDays(DayOf(LocalTime(t))).d
getMonth(t) == CivilFromDays(DayOf(LocalTime(t))).m - 1
getFullYear(t) == CivilFromDays(DayOf(LocalTime(t))).y
getDay(t) == (DayOf(LocalTime(t)) + 4) % 7

\* d.setHours(hour, minute, 0, 0): the local day is kept
setHours(t, hour, minute) ==
  UTC(DayOf(LocalTime(t)) * SecPerDay + hour * SecPerHour + minute * SecPerMinute)

\* d.setDate(dayOfMonth): the day of d's month, overflowing into later months;
\* the local time of day is kept
setDate(t, dayOfMonth) ==
  UTC(DaysFromCivil(getFullYear(t), getMonth(t) + 1, 1) * SecPerDay
        + (dayOfMonth - 1) * SecPerDay + (LocalTime(t) % SecPerDay))

\* new Date(year, monthIndex, day, h, m, 0, 0).getTime(); monthIndex may be 12
NewDate(year, monthIndex, day, h, m) ==
  LET y  == year + monthIndex \div 12
      mi == monthIndex % 12
  IN  UTC((DaysFromCivil(y, mi + 1, 1) + day - 1) * SecPerDay
            + h * SecPerHour + m * SecPerMinute)

(***************************************************************************)
(* computeNextAtTime.  The code reads the clock three times: `now`         *)
(* (line 183), `candidate = new Date()` (line 195) and `d = new Date()` in *)
(* every pass of the weekly scan (line 207).  clk.now, clk.cand and        *)
(* clk.scan are those readings.                                            *)
(***************************************************************************)
WeeklyScanDays == 14

Reading(t) == [now |-> t, cand |-> t, scan |-> t]

Candidate(hour, minute, clk) ==
  LET c == setHours(clk.cand, hour, minute)
  IN  IF c <= clk.now THEN setDate(c, getDate(c) + 1) ELSE c

WeeklyDay(hour, minute, clk, i) ==
  setHours(setDate(clk.scan, getDate(clk.now) + i), hour, minute)

\* mutant of WeeklyHits: a day at the reference instant itself counts
WeeklyHitsInclusive(hour, minute, weekdays, clk) ==
  { i \in 0..(WeeklyScanDays - 1) :
      /\ WeeklyDay(hour, minute, clk, i) >= clk.now
      /\ getDay(WeeklyDay(hour, minute, clk, i)) \in weekdays }

WeeklyHits(hour, minute, weekdays, clk) ==
  { i \in 0..(WeeklyScanDays - 1) :
      /\ WeeklyDay(hour, minute, clk, i) > clk.now
      /\ getDay(WeeklyDay(hour, minute, clk, i)) \in weekdays }

Min(S) == CHOOSE x \in S : \A y \in S : x <= y

computeNextAtTime(hour, minute, repeatAt, weekdays, monthDay, clk) ==
  IF repeatAt = "none" THEN Candidate(hour, minute, clk)
  ELSE IF repeatAt = "weekly" /\ weekdays # {} THEN
    LET hits == WeeklyHits(hour, minute, weekdays, clk)
    IN  IF hits # {} THEN WeeklyDay(hour, minute, clk, Min(hits))
        ELSE Candidate(hour, minute, clk)
  ELSE IF repeatAt = "monthly" /\ monthDay # 0 THEN
    LET d == NewDate(getFullYear(clk.now), getMonth(clk.now), monthDay, hour, minute)
    IN  IF d <= clk.now
        THEN NewDate(getFullYear(clk.now), getMonth(clk.now) + 1, monthDay, hour, minute)
        ELSE d
  ELSE Candidate(hour, minute, clk)


(***************************************************************************)
(* Bounds of the model.                                                    *)
(***************************************************************************)
MaxReminders == 2      \* reminders created in one behaviour
MaxSteps == 3          \* user and clock events (create, toggle, delete, close, tick) in one behaviour
MaxFires == 3          \* timer callbacks run for one reminder id
SWReminders == 1       \* reminders created in one behaviour under the service worker
QuotaReminders == 1    \* reminders created in one behaviour when store writes may throw
RandomDraws == {0}     \* values Math.floor(Math.random()*10000) is drawn from

\* the instant the page is first opened: Friday 2026-01-30 08:59:58
StartTime == At(2026, 1, 30, 8, 59, 58)

(***************************************************************************)
(* Values.                                                                 *)
(***************************************************************************)
\* parseInt(): a number or NaN
Num(v) == [nan |-> FALSE, v |-> v]
NaN == [nan |-> TRUE, v |-> 0]
\* parseInt(x) || 0
OrZero(p) == IF p.nan THEN 0 ELSE p.v
Max(a, b) == IF a >= b THEN a ELSE b

\* item.after / item.at of a record of the other mode (the field is absent)
NoAfter == [hours |-> 0, minutes |-> 0, loopCount |-> 0, remainingLoops |-> 0]
NoAt == [hour |-> 0, minute |-> 0]
NoId == <<>>
\* calc when no function is under study on its own
NoCalc == <<>>

\* the form's fields as onCreate reads them
AfterForm(msg, nt, h, m, loop) ==
  [message |-> msg, mode |-> "after", notifyType |-> nt,
   hours |-> h, minutes |-> m, loopCount |-> loop,
   hourAt |-> NaN, minuteAt |-> NaN, repeatAt |-> "none", checked |-> {},
   monthDay |-> NaN]
AtForm(msg, nt, hr, min, rep, wd, md) ==
  [message |-> msg, mode |-> "at", notifyType |-> nt,
   hours |-> NaN, minutes |-> NaN, loopCount |-> NaN,
   hourAt |-> hr, minuteAt |-> min, repeatAt |-> rep, checked |-> wd,
   monthDay |-> md]

Forms ==
  { AfterForm("m", "popup", Num(0), Num(0), Num(0)),
    AfterForm("m", "both", Num(0), Num(1), Num(2)),
    AtForm("m", "browser", Num(9), Num(0), "none", {}, NaN),
    AtForm("m", "popup", Num(9), Num(0), "weekly", {1, 3}, NaN),
    AtForm("m", "popup", Num(9), Num(0), "monthly", {}, Num(31)),
    AfterForm("", "popup", Num(0), Num(1), Num(0)) }

(***************************************************************************)
(* State.                                                                  *)
(***************************************************************************)
VARIABLES
  now,        \* Date.now()
  steps,      \* user and clock events so far (bounded by MaxSteps)
  phase,      \* "closed" | "loading" (init awaits the registration) | "ready"
  rendered,   \* loadList has drawn the list (and its buttons) in this page
  store,      \* localStorage[STORAGE_KEY]: the list of records
  timers,     \* the host's pending timeouts: [tid, item, due]
  timeouts,   \* the Map id -> timeoutId
  permission, \* Notification.permission
  calc,       \* the calls of a function under study on its own (NoCalc in the page)
  controller, \* navigator.serviceWorker.controller exists (a worker controls the page)
  toSW,       \* messages posted by the page, not yet handled by the worker
  toPage,     \* messages posted by the worker, not yet handled by the page
  notificationsCache, \* the worker's copy of the list
  presented,  \* occurrence -> times it was presented (by the page or the worker)
  fires,      \* id -> [n: timer callbacks run, touched: toggled by the user]
  deleted,    \* the records the user deleted, as they were stored
  lastOp      \* the operation that ran last

swVars == <<controller, toSW, toPage, notificationsCache>>
vars == <<now, steps, phase, rendered, store, timers, timeouts, permission,
          host, calc,
          controller, toSW, toPage, notificationsCache,
          presented, fires, deleted, lastOp>>

Ids(list) == { list[i].id : i \in DOMAIN list }
\* list.findIndex(x => x.id === id): 0 when there is none
findIndex(list, id) ==
  IF \E i \in DOMAIN list : list[i].id = id
  THEN Min({ i \in DOMAIN list : list[i].id = id })
  ELSE 0
Pending(id) == { t \in timers : t.item.id = id }
\* lastOp: the operation, the id it was for, and, when it computed a
\* nextTime, the clock reading it used (at) and the result (next)
NoNext == 0 - 1
Computed(op, id, at, next) == [op |-> op, id |-> id, at |-> at, next |-> next]
Op(op, id) == Computed(op, id, 0, NoNext)
Idle == Op("idle", NoId)
\* the record of id in list
Rec(list, id) == list[findIndex(list, id)]

(***************************************************************************)
(* Timers.                                                                 *)
(***************************************************************************)
\* setTimeout converts its delay to a signed 32-bit number of milliseconds
\* and treats a negative one as 0.  d is in seconds, so d*1000 ms is
\* (d*125) units of 8 ms, and 2^32 ms is 2^29 of them.
TimerDelay(d) ==
  LET q == (d * 125) % 536870912
  IN  IF q >= 268435456 THEN 0 ELSE (q + 124) \div 125

\* a timeoutId in use neither by a pending timer nor by the Map
FreshTid(ts, tm) ==
  Min({ n \in 1..(Cardinality(ts) + Cardinality(DOMAIN tm) + 1) :
          /\ \A t \in ts : t.tid # n
          /\ \A i \in DOMAIN tm : tm[i] # n })

\* if (timeouts.has(id)) { clearTimeout(timeouts.get(id)); timeouts.delete(id); }
clearTimer(sched, id) ==
  IF id \in DOMAIN sched.timeouts
  THEN [timers |-> { t \in sched.timers : t.tid # sched.timeouts[id] },
        timeouts |-> [i \in DOMAIN sched.timeouts \ {id} |-> sched.timeouts[i]]]
  ELSE sched

\* mutant of scheduleNotification: the prior timer is not cancelled
scheduleNotificationNoClear(sched, item, t) ==
  LET delay == Max(0, item.nextTime - t)
      tid == FreshTid(sched.timers, sched.timeouts)
  IN  IF ~item.enabled THEN clearTimer(sched, item.id)
      ELSE [timers |-> sched.timers \cup
                         {[tid |-> tid, item |-> item, due |-> t + TimerDelay(delay)]},
            timeouts |-> [i \in DOMAIN sched.timeouts \cup {item.id} |->
                            IF i = item.id THEN tid ELSE sched.timeouts[i]]]

\* scheduleNotification(item) at clock reading t, on sched = [timers, timeouts]
scheduleNotification(sched, item, t) ==
  LET cleared == clearTimer(sched, item.id)
      delay == Max(0, item.nextTime - t)
      tid == FreshTid(cleared.timers, cleared.timeouts)
  IN  IF ~item.enabled THEN cleared
      ELSE [timers |-> cleared.timers \cup
                         {[tid |-> tid, item |-> item, due |-> t + TimerDelay(delay)]},
            timeouts |-> [i \in DOMAIN cleared.timeouts \cup {item.id} |->
                            IF i = item.id THEN tid ELSE cleared.timeouts[i]]]

RECURSIVE scheduleAllDueLater(_, _, _, _)
\* mutant of scheduleAll: records whose nextTime has passed are skipped
scheduleAllDueLater(sched, list, i, t) ==
  IF i > Len(list) THEN sched
  ELSE scheduleAllDueLater(
         IF list[i].nextTime > t THEN scheduleNotification(sched, list[i], t)
         ELSE sched,
         list, i + 1, t)

RECURSIVE scheduleAll(_, _, _, _)
\* list.forEach(scheduleNotification), from index i
scheduleAll(sched, list, i, t) ==
  IF i > Len(list) THEN sched
  ELSE scheduleAll(scheduleNotification(sched, list[i], t), list, i + 1, t)

\* mutant of cancelOnDelete and of cancelOnDisable: the timer is left alone
keepTimer(sched, id) == sched

\* the clean-up at the end of deleteNotification
cancelOnDelete(sched, id) == clearTimer(sched, id)

\* the clean-up of toggleEnable's disabling branch
cancelOnDisable(sched, id) == clearTimer(sched, id)

Sched == [timers |-> timers, timeouts |-> timeouts]

(***************************************************************************)
(* Messages between the page and the service worker.                       *)
(***************************************************************************)
Msg(type, payload) == [type |-> type, payload |-> payload]

\* mutant of PostUpdates: a save does not tell the worker
PostUpdatesNone(q, n) == q

\* the post at the end of saveNotifications, done n times
RECURSIVE PostUpdates(_, _)
PostUpdates(q, n) ==
  IF n = 0 \/ ~controller THEN q
  ELSE PostUpdates(Append(q, Msg("updateNotifications", <<>>)), n - 1)

\* fireNotification's post of the item to the worker
PostShow(q, item) ==
  IF item.notifyType \in {"browser", "both"} /\ permission = "granted" /\ controller
  THEN Append(q, Msg("showNotification", <<item>>))
  ELSE q

(***************************************************************************)
(* Store helpers.                                                          *)
(***************************************************************************)
\* appendHistoryEntry(item) on the stored list, at clock reading t
appendHistoryEntry(list, item, t) ==
  LET idx == findIndex(list, item.id)
  IN  IF idx > 0
      THEN [list EXCEPT ![idx].history =
              Append(@, [ts |-> t, message |-> item.message])]
      ELSE list

\* mutant of updateItem: the item is not written to the list
updateItemSkipped(list, item) == list

\* updateItem(item): list[idx] = item
updateItem(list, item) ==
  LET idx == findIndex(list, item.id)
  IN  IF idx > 0 THEN [list EXCEPT ![idx] = item] ELSE list

\* mutant of removeItem: the comparison is turned round
removeItemKeepsOnly(list, id) == SelectSeq(list, LAMBDA x : x.id = id)

\* loadNotifications().filter(x => x.id !== id)
removeItem(list, id) == SelectSeq(list, LAMBDA x : x.id # id)

(***************************************************************************)
(* Ghost bookkeeping (not program state).                                  *)
(***************************************************************************)
\* the occurrence an item stands for: its id, its nextTime and, for a looping
\* relative delay, the loops left
Occurrence(item) == <<item.id, item.nextTime, item.after.remainingLoops>>
Count(f, k) == IF k \in DOMAIN f THEN f[k] ELSE 0
\* one more presentation of occurrence k (counted up to 2)
Bump(f, k) ==
  [x \in DOMAIN f \cup {k} |->
     IF x = k THEN (IF Count(f, k) < 2 THEN Count(f, k) + 1 ELSE 2) ELSE f[x]]
\* a new arm cycle of id: its earlier occurrences are forgotten
Forget(f, id) == [x \in { k \in DOMAIN f : k[1] # id } |-> f[x]]
SetFires(f, id, rec) == [x \in DOMAIN f \cup {id} |-> IF x = id THEN rec ELSE f[x]]
FiresOf(id) == IF id \in DOMAIN fires THEN fires[id].n ELSE 0

(***************************************************************************)
(* onCreate.                                                               *)
(***************************************************************************)
\* String.prototype.trim on the message field's values: white space at both
\* ends is dropped
trim(msg) ==
  IF msg \in {"", " ", "  "} THEN ""
  ELSE IF msg \in {" m", "m ", " m "} THEN "m"
  ELSE msg

\* mutant of Validate: the weekday and month-day checks are left out
ValidateTimeOnly(form) ==
  IF trim(form.message) = "" THEN "needMessage"
  ELSE IF form.mode = "after" THEN "ok"
  ELSE IF form.hourAt.nan \/ form.minuteAt.nan THEN "needTime"
  ELSE "ok"

\* the alert onCreate rejects the form with, or "ok"
Validate(form) ==
  IF trim(form.message) = "" THEN "needMessage"
  ELSE IF form.mode = "after" THEN "ok"
  ELSE IF form.hourAt.nan \/ form.minuteAt.nan THEN "needTime"
  ELSE IF form.repeatAt = "weekly" /\ form.checked = {} THEN "needWeekday"
  ELSE IF form.repeatAt = "monthly"
          /\ (form.monthDay.nan \/ form.monthDay.v < 1 \/ form.monthDay.v > 31)
       THEN "needMonthDay"
  ELSE "ok"

\* item.nextTime of a relative-delay record computed at clock reading t
AfterNextTime(h, m, t) == t + ((h * 60 + m) * SecPerMinute)

\* the item onCreate builds from a valid form at clock reading t
NewItem(form, id, t) ==
  LET base == [id |-> id, message |-> trim(form.message), mode |-> form.mode,
               notifyType |-> form.notifyType, enabled |-> TRUE,
               history |-> <<>>]
  IN  IF form.mode = "after" THEN
        LET h == Max(0, OrZero(form.hours))
            m == Max(0, OrZero(form.minutes))
            loop == Max(0, OrZero(form.loopCount))
        IN  base @@ [after |-> [hours |-> h, minutes |-> m, loopCount |-> loop,
                                remainingLoops |-> loop],
                     at |-> NoAt, repeatAt |-> "none", weekdays |-> {},
                     monthDay |-> 0,
                     nextTime |-> AfterNextTime(h, m, t)]
      ELSE
        LET wd == IF form.repeatAt = "weekly" THEN form.checked ELSE {}
            md == IF form.repeatAt = "monthly" THEN form.monthDay.v ELSE 0
        IN  base @@ [after |-> NoAfter,
                     at |-> [hour |-> form.hourAt.v, minute |-> form.minuteAt.v],
                     repeatAt |-> form.repeatAt, weekdays |-> wd, monthDay |-> md,
                     nextTime |-> computeNextAtTime(form.hourAt.v, form.minuteAt.v,
                                    form.repeatAt, wd, md, Reading(t))]

generateId(t, rnd) == <<t, rnd>>

\* wait: how long the closing alert() blocks the page
Create(form, rnd, wait) ==
  /\ phase \in {"loading", "ready"}
  /\ steps < MaxSteps
  /\ steps' = steps + 1
  /\ IF Validate(form) # "ok"
     THEN /\ lastOp' = Op(Validate(form), NoId)
          /\ UNCHANGED <<now, phase, rendered, store, timers, timeouts,
                         permission, host, calc, toSW, presented, fires, deleted>>
     ELSE \E item \in {NewItem(form, generateId(now, rnd), now)} :
          \E sched \in {scheduleNotification(Sched, item, now)} :
              /\ Cardinality(DOMAIN fires) < MaxReminders
              /\ store' = Append(store, item)
              /\ toSW' = PostUpdates(toSW, 1)
              /\ rendered' = TRUE
              /\ timers' = sched.timers
              /\ timeouts' = sched.timeouts
              /\ now' = now + wait
              /\ fires' = SetFires(fires, item.id, [n |-> 0, touched |-> FALSE])
              /\ presented' = Forget(presented, item.id)
              /\ lastOp' = Computed("create", item.id, now, item.nextTime)
              /\ UNCHANGED <<phase, permission, host, calc, deleted>>
  /\ UNCHANGED <<controller, toPage, notificationsCache>>

(***************************************************************************)
(* The timer callback of scheduleNotification, with fireNotification.      *)
(***************************************************************************)
\* whether fireNotification shows anything for the item
Shows(item) ==
  \/ item.notifyType \in {"browser", "both"} /\ permission = "granted"
  \/ item.notifyType \in {"popup", "both"}

\* mutant of AfterFire: the last loop is counted with > 0 instead of > 1
AfterFireOneMore(item, t) ==
  IF item.mode = "after" THEN
    IF item.after.loopCount > 0 /\ item.after.remainingLoops > 0
    THEN [item EXCEPT !.after.remainingLoops = @ - 1,
                      !.nextTime = AfterNextTime(item.after.hours, item.after.minutes, t)]
    ELSE [item EXCEPT !.enabled = FALSE]
  ELSE IF item.repeatAt = "none" THEN [item EXCEPT !.enabled = FALSE]
  ELSE [item EXCEPT !.nextTime =
          computeNextAtTime(item.at.hour, item.at.minute, item.repeatAt,
                            item.weekdays, item.monthDay, Reading(t))]

\* mutant of AfterFire: an absolute-time item is recomputed whatever its repeatAt
AfterFireAlwaysRepeats(item, t) ==
  IF item.mode = "after" THEN
    IF item.after.loopCount > 0 /\ item.after.remainingLoops > 1
    THEN [item EXCEPT !.after.remainingLoops = @ - 1,
                      !.nextTime = AfterNextTime(item.after.hours, item.after.minutes, t)]
    ELSE [item EXCEPT !.enabled = FALSE]
  ELSE [item EXCEPT !.nextTime =
          computeNextAtTime(item.at.hour, item.at.minute, item.repeatAt,
                            item.weekdays, item.monthDay, Reading(t))]

\* mutant of AfterFire: an absolute-time item is retired whatever its repeatAt
AfterFireAlwaysRetires(item, t) ==
  IF item.mode = "after" THEN
    IF item.after.loopCount > 0 /\ item.after.remainingLoops > 1
    THEN [item EXCEPT !.after.remainingLoops = @ - 1,
                      !.nextTime = AfterNextTime(item.after.hours, item.after.minutes, t)]
    ELSE [item EXCEPT !.enabled = FALSE]
  ELSE [item EXCEPT !.enabled = FALSE]

\* mutant of AfterFire: a repeat is counted from the nextTime that has just
\* fired instead of from the clock
AfterFireFromPrevious(item, t) ==
  IF item.mode = "after" THEN
    IF item.after.loopCount > 0 /\ item.after.remainingLoops > 1
    THEN [item EXCEPT !.after.remainingLoops = @ - 1,
                      !.nextTime = AfterNextTime(item.after.hours, item.after.minutes,
                                                 item.nextTime)]
    ELSE [item EXCEPT !.enabled = FALSE]
  ELSE IF item.repeatAt = "none" THEN [item EXCEPT !.enabled = FALSE]
  ELSE [item EXCEPT !.nextTime =
          computeNextAtTime(item.at.hour, item.at.minute, item.repeatAt,
                            item.weekdays, item.monthDay, Reading(t))]

\* the closure's item after the callback's rescheduling branch, at reading t
AfterFire(item, t) ==
  IF item.mode = "after" THEN
    IF item.after.loopCount > 0 /\ item.after.remainingLoops > 1
    THEN [item EXCEPT !.after.remainingLoops = @ - 1,
                      !.nextTime = AfterNextTime(item.after.hours, item.after.minutes, t)]
    ELSE [item EXCEPT !.enabled = FALSE]
  ELSE IF item.repeatAt = "none" THEN [item EXCEPT !.enabled = FALSE]
  ELSE [item EXCEPT !.nextTime =
          computeNextAtTime(item.at.hour, item.at.minute, item.repeatAt,
                            item.weekdays, item.monthDay, Reading(t))]

\* whether the callback calls scheduleNotification(item) again, given the
\* item its branch left: the branches that do not retire the item re-arm it
Rearms(item2) == item2.enabled

TimerFire(t) ==
  /\ phase \in {"loading", "ready"}
  /\ t \in timers
  /\ now >= t.due
  /\ FiresOf(t.item.id) < MaxFires
  /\ \E item \in {t.item} :
     \E item2 \in {AfterFire(item, now)} :
     \E expired \in {[timers |-> timers \ {t}, timeouts |-> timeouts]} :
     \E sched \in {IF Rearms(item2) THEN scheduleNotification(expired, item2, now)
                   ELSE expired} :
         /\ store' = updateItem(appendHistoryEntry(store, item, now), item2)
         /\ toSW' = PostUpdates(PostShow(toSW, item),
                                IF item.id \in Ids(store) THEN 2 ELSE 0)
         /\ timers' = sched.timers
         /\ timeouts' = sched.timeouts
         /\ presented' = IF Shows(item) THEN Bump(presented, Occurrence(item))
                         ELSE presented
         /\ fires' = SetFires(fires, item.id,
                       [n |-> FiresOf(item.id) + 1,
                        touched |-> IF item.id \in DOMAIN fires
                                    THEN fires[item.id].touched ELSE FALSE])
         /\ lastOp' = IF Rearms(item2)
                        THEN Computed("fire", item.id, now, item2.nextTime)
                        ELSE Op("fire", item.id)
  /\ UNCHANGED <<now, steps, phase, rendered, permission, host, calc, deleted,
                 controller, toPage, notificationsCache>>

\* the steps of fireNotification that are not inside a try/catch and run for
\* the item: the Notification constructor (no worker controls the page) and
\* showInPageNotif
Throwing(item) ==
  (IF item.notifyType \in {"browser", "both"} /\ permission = "granted" /\ ~controller
   THEN {"notification"} ELSE {})
  \cup (IF item.notifyType \in {"popup", "both"} THEN {"popup"} ELSE {})

\* the timer callback when that step of fireNotification throws: the promise
\* of fireNotification rejects, so the await throws and the async callback
\* ends there.  appendHistoryEntry, the rescheduling branch, updateItem and
\* scheduleNotification are not reached; the Map keeps the expired timeoutId.
TimerFireThrows(t, part) ==
  /\ phase \in {"loading", "ready"}
  /\ t \in timers
  /\ now >= t.due
  /\ FiresOf(t.item.id) < MaxFires
  /\ part \in Throwing(t.item)
  /\ LET item == t.item
         shown == part = "popup" /\ item.notifyType = "both" /\ permission = "granted"
     IN  /\ timers' = timers \ {t}
         /\ toSW' = IF part = "popup" THEN PostShow(toSW, item) ELSE toSW
         /\ presented' = IF shown THEN Bump(presented, Occurrence(item))
                         ELSE presented
         /\ fires' = SetFires(fires, item.id,
                       [n |-> FiresOf(item.id) + 1,
                        touched |-> IF item.id \in DOMAIN fires
                                    THEN fires[item.id].touched ELSE FALSE])
         /\ lastOp' = Op("fireThrew", item.id)
  /\ UNCHANGED <<now, steps, phase, rendered, store, timeouts, permission, host, calc, deleted,
                 controller, toPage, notificationsCache>>

(***************************************************************************)
(* toggleEnable and deleteNotification (the list's buttons).               *)
(***************************************************************************)
\* mutant of Toggled: re-enabling keeps the loops that were left
ToggledKeepsLoops(rec, t) ==
  IF rec.enabled THEN [rec EXCEPT !.enabled = FALSE]
  ELSE IF rec.mode = "after"
  THEN [rec EXCEPT !.enabled = TRUE,
                   !.nextTime = AfterNextTime(rec.after.hours, rec.after.minutes, t)]
  ELSE [rec EXCEPT !.enabled = TRUE,
                   !.nextTime = computeNextAtTime(rec.at.hour, rec.at.minute,
                                  rec.repeatAt, rec.weekdays, rec.monthDay, Reading(t))]

\* list[idx] after toggleEnable's flip and recompute, at clock reading t
Toggled(rec, t) ==
  IF rec.enabled THEN [rec EXCEPT !.enabled = FALSE]
  ELSE IF rec.mode = "after"
  THEN [rec EXCEPT !.enabled = TRUE,
                   !.nextTime = AfterNextTime(rec.after.hours, rec.after.minutes, t),
                   !.after.remainingLoops = rec.after.loopCount]
  ELSE [rec EXCEPT !.enabled = TRUE,
                   !.nextTime = computeNextAtTime(rec.at.hour, rec.at.minute,
                                  rec.repeatAt, rec.weekdays, rec.monthDay, Reading(t))]

toggleEnable(id) ==
  /\ phase \in {"loading", "ready"}
  /\ rendered
  /\ steps < MaxSteps
  /\ steps' = steps + 1
  /\ id \in Ids(store)
  /\ \E idx \in {findIndex(store, id)} :
     \E rec \in {Toggled(store[idx], now)} :
     \E sched \in {IF rec.enabled THEN scheduleNotification(Sched, rec, now)
                   ELSE cancelOnDisable(Sched, id)} :
         /\ store' = [store EXCEPT ![idx] = rec]
         /\ toSW' = PostUpdates(toSW, 1)
         /\ timers' = sched.timers
         /\ timeouts' = sched.timeouts
         /\ presented' = IF rec.enabled THEN Forget(presented, id) ELSE presented
         /\ fires' = SetFires(fires, id, [n |-> FiresOf(id), touched |-> TRUE])
         /\ lastOp' = IF rec.enabled
                        THEN Computed("enable", id, now, rec.nextTime)
                        ELSE Op("disable", id)
  /\ UNCHANGED <<now, phase, rendered, permission, host, calc, deleted,
                 controller, toPage, notificationsCache>>

\* toggleEnable(id) for an id that is not in the stored list (the record was
\* removed after the handler was bound): findIndex gives -1 and the body of
\* `if (idx>=0)` is skipped
toggleEnableMissing(id) ==
  /\ phase \in {"loading", "ready"}
  /\ steps < MaxSteps
  /\ id \notin Ids(store)
  /\ steps' = steps + 1
  /\ lastOp' = Op("toggleMissing", id)
  /\ UNCHANGED <<now, phase, rendered, store, timers, timeouts, permission, host, calc,
                 presented, fires, deleted>>
  /\ UNCHANGED swVars

\* ok: the answer to confirm()
deleteNotification(id, ok) ==
  /\ phase \in {"loading", "ready"}
  /\ rendered
  /\ steps < MaxSteps
  /\ steps' = steps + 1
  /\ id \in Ids(store)
  /\ IF ~ok
     THEN /\ lastOp' = Op("keep", id)
          /\ UNCHANGED <<store, toSW, timers, timeouts, deleted>>
     ELSE LET sched == cancelOnDelete(Sched, id)
          IN  /\ store' = removeItem(store, id)
              /\ toSW' = PostUpdates(toSW, 1)
              /\ timers' = sched.timers
              /\ timeouts' = sched.timeouts
              /\ deleted' = deleted \cup {Rec(store, id)}
              /\ lastOp' = Op("delete", id)
  /\ UNCHANGED <<now, phase, rendered, permission, host, calc, presented, fires,
                 controller, toPage, notificationsCache>>

(***************************************************************************)
(* The handlers when localStorage.setItem throws inside saveNotifications  *)
(* (quota exceeded, storage disabled).  No handler catches it: the         *)
(* statements after the failed save are not reached.                       *)
(***************************************************************************)
\* onCreate: list.push(item); saveNotifications(list) throws.  loadList,
\* scheduleNotification and the closing alert are not reached.
CreateSaveThrows(form, rnd) ==
  /\ phase \in {"loading", "ready"}
  /\ steps < MaxSteps
  /\ Validate(form) = "ok"
  /\ steps' = steps + 1
  /\ lastOp' = Op("createSaveThrew", generateId(now, rnd))
  /\ UNCHANGED <<now, phase, rendered, store, timers, timeouts, permission, host, calc,
                 presented, fires, deleted>>
  /\ UNCHANGED swVars

\* toggleEnable: the save of either branch throws.  Enabling: the timer is
\* not armed.  Disabling: the timer is not cleared.  loadList is not reached.
toggleEnableSaveThrows(id) ==
  /\ phase \in {"loading", "ready"}
  /\ rendered
  /\ steps < MaxSteps
  /\ id \in Ids(store)
  /\ steps' = steps + 1
  /\ lastOp' = Op("toggleSaveThrew", id)
  /\ UNCHANGED <<now, phase, rendered, store, timers, timeouts, permission, host, calc,
                 presented, fires, deleted>>
  /\ UNCHANGED swVars

\* deleteNotification: the save throws, the timer is not cleared
deleteSaveThrows(id) ==
  /\ phase \in {"loading", "ready"}
  /\ rendered
  /\ steps < MaxSteps
  /\ id \in Ids(store)
  /\ steps' = steps + 1
  /\ lastOp' = Op("deleteSaveThrew", id)
  /\ UNCHANGED <<now, phase, rendered, store, timers, timeouts, permission, host, calc,
                 presented, fires, deleted>>
  /\ UNCHANGED swVars

\* the timer callback when a save throws: in appendHistoryEntry (at =
\* "history": fireNotification rejects after it has presented) or in the
\* updateItem of the rescheduling branch (at = "update": the history entry
\* is stored, the recomputed item is not, scheduleNotification is not
\* reached).  Either way the async callback ends with no timer armed.
TimerFireSaveThrows(t, at) ==
  /\ phase \in {"loading", "ready"}
  /\ t \in timers
  /\ now >= t.due
  /\ FiresOf(t.item.id) < MaxFires
  /\ t.item.id \in Ids(store)
  /\ LET item == t.item
     IN  /\ store' = IF at = "update" THEN appendHistoryEntry(store, item, now)
                     ELSE store
         /\ toSW' = PostUpdates(PostShow(toSW, item), IF at = "update" THEN 1 ELSE 0)
         /\ timers' = timers \ {t}
         /\ presented' = IF Shows(item) THEN Bump(presented, Occurrence(item))
                         ELSE presented
         /\ fires' = SetFires(fires, item.id,
                       [n |-> FiresOf(item.id) + 1,
                        touched |-> IF item.id \in DOMAIN fires
                                    THEN fires[item.id].touched ELSE FALSE])
         /\ lastOp' = Op("fireSaveThrew", item.id)
  /\ UNCHANGED <<now, steps, phase, rendered, timeouts, permission, host, calc, deleted,
                 controller, toPage, notificationsCache>>

(***************************************************************************)
(* Page life cycle and the clock.                                         *)
(***************************************************************************)
\* the tail of init(): loadList(); scheduleAllFromStorage()
scheduleAllFromStorage ==
  /\ phase = "loading"
  /\ LET sched == scheduleAll(Sched, store, 1, now)
     IN  /\ timers' = sched.timers
         /\ timeouts' = sched.timeouts
  /\ phase' = "ready"
  /\ rendered' = TRUE
  /\ lastOp' = Op("startup", NoId)
  /\ UNCHANGED <<now, steps, store, permission, host, calc, presented, fires, deleted>>
  /\ UNCHANGED swVars

\* the page is closed: its timers and its Map are gone, and so are the
\* messages it has not handled; the store stays
ClosePage ==
  /\ phase \in {"loading", "ready"}
  /\ steps < MaxSteps
  /\ steps' = steps + 1
  /\ phase' = "closed"
  /\ rendered' = FALSE
  /\ timers' = {}
  /\ timeouts' = <<>>
  /\ toPage' = <<>>
  /\ lastOp' = Idle
  /\ UNCHANGED <<now, store, permission, host, calc, presented, fires, deleted,
                 controller, toSW, notificationsCache>>

\* the page is opened again: the script runs and init() starts
OpenPage ==
  /\ phase = "closed"
  /\ phase' = "loading"
  /\ lastOp' = Idle
  /\ UNCHANGED <<now, steps, rendered, store, timers, timeouts, permission, host, calc,
                 presented, fires, deleted>>
  /\ UNCHANGED swVars

\* the clock advances up to a pending timer's due instant, or by one when no
\* timer is due later
Advances ==
  IF \E t \in timers : t.due > now
  THEN { t.due - now : t \in { x \in timers : x.due > now } }
  ELSE {1}

Tick(d) ==
  /\ steps < MaxSteps
  /\ now' = now + d
  /\ steps' = steps + 1
  /\ lastOp' = Idle
  /\ UNCHANGED <<phase, rendered, store, timers, timeouts, permission, host, calc,
                 presented, fires, deleted>>
  /\ UNCHANGED swVars

(***************************************************************************)
(* The service worker (sw.js) and the page's message listeners.            *)
(***************************************************************************)
AllowanceSec == 5

\* the worker's 'message' listener, on the oldest message of the page
SWMessage ==
  /\ toSW # <<>>
  /\ LET data == Head(toSW)
     IN  /\ toSW' = Tail(toSW)
         /\ toPage' = IF data.type = "updateNotifications" /\ phase # "closed"
                      THEN Append(toPage, Msg("requestNotifications", <<>>))
                      ELSE toPage
         /\ notificationsCache' = IF data.type = "deliverNotifications"
                                  THEN data.payload
                                  ELSE notificationsCache
  /\ UNCHANGED <<now, steps, phase, rendered, store, timers, timeouts, permission, host, calc,
                 controller, presented, fires, deleted, lastOp>>

\* the page's 'message' listeners, on the oldest message of the worker
PageMessage ==
  /\ phase \in {"loading", "ready"}
  /\ toPage # <<>>
  /\ toPage' = Tail(toPage)
  /\ toSW' = IF Head(toPage).type = "requestNotifications" /\ controller
             THEN Append(toSW, Msg("deliverNotifications", store))
             ELSE toSW
  /\ UNCHANGED <<now, steps, phase, rendered, store, timers, timeouts, permission, host, calc,
                 controller, notificationsCache, presented, fires, deleted, lastOp>>

\* mutant of DueInCache: the pass shows every enabled item, due or not
DueInCacheEnabled(t) ==
  { i \in DOMAIN notificationsCache : notificationsCache[i].enabled }

\* the items of the worker's list that a pass starting at reading t shows
DueInCache(t) ==
  { i \in DOMAIN notificationsCache :
      /\ notificationsCache[i].enabled
      /\ notificationsCache[i].nextTime # 0
      /\ notificationsCache[i].nextTime <= t + AllowanceSec }

RECURSIVE BumpAll(_, _, _)
\* one presentation of every item of list whose index is in S
BumpAll(f, list, S) ==
  IF S = {} THEN f
  ELSE LET i == Min(S)
       IN  BumpAll(Bump(f, Occurrence(list[i])), list, S \ {i})

RECURSIVE PostTriggered(_, _, _)
\* c.postMessage({type:'triggeredBySW', id}) for every item shown
PostTriggered(q, list, S) ==
  IF S = {} THEN q
  ELSE LET i == Min(S)
       IN  PostTriggered(Append(q, Msg("triggeredBySW", <<list[i].id>>)), list, S \ {i})

\* the 'periodicsync' event: handlePeriodicSync
handlePeriodicSync ==
  /\ controller
  /\ steps < MaxSteps
  /\ steps' = steps + 1
  /\ presented' = BumpAll(presented, notificationsCache, DueInCache(now))
  /\ toPage' = IF phase = "closed" THEN toPage
               ELSE PostTriggered(toPage, notificationsCache, DueInCache(now))
  /\ lastOp' = Op("sync", NoId)
  /\ UNCHANGED <<now, phase, rendered, store, timers, timeouts, permission, host, calc,
                 controller, toSW, notificationsCache, fires, deleted>>

Init ==
  /\ now = StartTime
  /\ steps = 0
  /\ phase = "loading"
  /\ rendered = FALSE
  /\ store = <<>>
  /\ timers = {}
  /\ timeouts = <<>>
  /\ permission = "granted"
  /\ host = "UTC"
  /\ calc = NoCalc
  /\ controller = FALSE
  /\ toSW = <<>>
  /\ toPage = <<>>
  /\ notificationsCache = <<>>
  /\ presented = <<>>
  /\ fires = <<>>
  /\ deleted = {}
  /\ lastOp = Idle

Next ==
  \/ \E form \in Forms, rnd \in RandomDraws : Create(form, rnd, 1)
  \/ \E t \in timers : TimerFire(t)
  \/ \E id \in Ids(store) : toggleEnable(id)
  \/ \E id \in Ids(store), ok \in BOOLEAN : deleteNotification(id, ok)
  \/ scheduleAllFromStorage
  \/ ClosePage
  \/ OpenPage
  \/ \E d \in Advances : Tick(d)

Spec == Init /\ [][Next]_vars

(***************************************************************************)
(* The page under a service worker that controls it.                       *)
(***************************************************************************)
SWForms ==
  { AfterForm("m", "popup", Num(0), Num(0), Num(2)),
    AtForm("m", "browser", Num(9), Num(0), "none", {}, NaN) }

InitSW ==
  /\ now = StartTime
  /\ steps = 0
  /\ phase = "loading"
  /\ rendered = FALSE
  /\ store = <<>>
  /\ timers = {}
  /\ timeouts = <<>>
  /\ permission = "granted"
  /\ host = "UTC"
  /\ calc = NoCalc
  /\ controller = TRUE
  /\ toSW = <<>>
  /\ toPage = <<>>
  /\ notificationsCache = <<>>
  /\ presented = <<>>
  /\ fires = <<>>
  /\ deleted = {}
  /\ lastOp = Idle

NextSW ==
  \/ \E form \in SWForms, rnd \in RandomDraws :
       Cardinality(DOMAIN fires) < SWReminders /\ Create(form, rnd, 1)
  \/ \E t \in timers : TimerFire(t)
  \/ \E id \in Ids(store) : toggleEnable(id)
  \/ \E id \in Ids(store), ok \in BOOLEAN : deleteNotification(id, ok)
  \/ scheduleAllFromStorage
  \/ ClosePage
  \/ OpenPage
  \/ \E d \in Advances : Tick(d)
  \/ SWMessage
  \/ PageMessage
  \/ handlePeriodicSync

SpecSW == InitSW /\ [][NextSW]_vars

(***************************************************************************)
(* The page when a presentation step of fireNotification may throw.        *)
(***************************************************************************)
NextThrows ==
  \/ \E form \in Forms, rnd \in RandomDraws : Create(form, rnd, 1)
  \/ \E t \in timers : TimerFire(t)
  \/ \E t \in timers, part \in {"notification", "popup"} : TimerFireThrows(t, part)
  \/ \E id \in Ids(store) : toggleEnable(id)
  \/ \E id \in Ids(store), ok \in BOOLEAN : deleteNotification(id, ok)
  \/ scheduleAllFromStorage
  \/ ClosePage
  \/ OpenPage
  \/ \E d \in Advances : Tick(d)

SpecThrows == Init /\ [][NextThrows]_vars

(***************************************************************************)
(* The page when a write to localStorage may throw.                        *)
(***************************************************************************)
QuotaForms == { AfterForm("m", "popup", Num(0), Num(0), Num(2)) }

NextQuota ==
  \/ \E form \in QuotaForms, rnd \in RandomDraws :
       Cardinality(DOMAIN fires) < QuotaReminders /\ Create(form, rnd, 1)
  \/ \E form \in QuotaForms, rnd \in RandomDraws : CreateSaveThrows(form, rnd)
  \/ \E t \in timers : TimerFire(t)
  \/ \E t \in timers, at \in {"history", "update"} : TimerFireSaveThrows(t, at)
  \/ \E id \in Ids(store) : toggleEnable(id)
  \/ \E id \in Ids(store) : toggleEnableSaveThrows(id)
  \/ \E id \in Ids(store), ok \in BOOLEAN : deleteNotification(id, ok)
  \/ \E id \in Ids(store) : deleteSaveThrows(id)
  \/ scheduleAllFromStorage
  \/ ClosePage
  \/ OpenPage
  \/ \E d \in Advances : Tick(d)

SpecQuota == Init /\ [][NextQuota]_vars

(***************************************************************************)
(* The create form with every kind of input, submitted at any pace: the    *)
(* closing alert may be dismissed within the clock's resolution (wait 0).  *)
(***************************************************************************)
BadForms ==
  { AfterForm("  ", "popup", Num(0), Num(1), Num(0)),
    AtForm("m", "popup", NaN, Num(0), "none", {}, NaN),
    AtForm("m", "popup", Num(9), NaN, "none", {}, NaN),
    AtForm("m", "popup", Num(9), Num(0), "weekly", {}, NaN),
    AtForm("m", "popup", Num(9), Num(0), "monthly", {}, NaN),
    AtForm("m", "popup", Num(9), Num(0), "monthly", {}, Num(0)),
    AtForm("m", "popup", Num(9), Num(0), "monthly", {}, Num(32)) }

GoodForms ==
  { AfterForm(" m ", "popup", Num(0), Num(1), Num(0)),
    AtForm("m", "popup", Num(9), Num(0), "monthly", {}, Num(31)) }

CreateDraws == {0, 1}  \* values Math.random()*10000 floors to
CreateWaits == {0, 1}  \* seconds the closing alert stays open

NextCreate ==
  \/ \E form \in BadForms \cup GoodForms, rnd \in CreateDraws, wait \in CreateWaits :
       Create(form, rnd, wait)
  \/ \E t \in timers : TimerFire(t)
  \/ scheduleAllFromStorage
  \/ \E d \in Advances : Tick(d)

SpecCreate == Init /\ [][NextCreate]_vars

(***************************************************************************)
(* The page when toggleEnable may also be called for an id whose record    *)
(* has been deleted.                                                       *)
(***************************************************************************)
ToggleForms ==
  { AfterForm("m", "popup", Num(0), Num(0), Num(2)),
    AtForm("m", "popup", Num(9), Num(0), "weekly", {1, 3}, NaN) }

DeletedIds == { r.id : r \in deleted }

NextToggle ==
  \/ \E form \in ToggleForms, rnd \in RandomDraws : Create(form, rnd, 1)
  \/ \E t \in timers : TimerFire(t)
  \/ \E id \in Ids(store) : toggleEnable(id)
  \/ \E id \in DeletedIds : toggleEnableMissing(id)
  \/ \E id \in Ids(store), ok \in BOOLEAN : deleteNotification(id, ok)
  \/ scheduleAllFromStorage
  \/ \E d \in Advances : Tick(d)

SpecToggle == Init /\ [][NextToggle]_vars

(***************************************************************************)
(* The occurrence calculator on its own: computeNextAtTime called twice    *)
(* for one schedule at one reference instant (the reading of line 183),    *)
(* on a host in either time zone.  The later readings of a call (lines 195 *)
(* and 207) are the reference instant or ClockDrift later; the passes of   *)
(* one weekly scan share one reading.                                      *)
(***************************************************************************)
ClockDrift == 1

CalcTimes == { <<0, 0>>, <<1, 30>>, <<9, 0>>, <<23, 59>> }

CalcRecurrences ==
  { [repeatAt |-> "none", weekdays |-> {}, monthDay |-> 0],
    [repeatAt |-> "weekly", weekdays |-> {1, 3}, monthDay |-> 0],
    [repeatAt |-> "weekly", weekdays |-> {0}, monthDay |-> 0],
    [repeatAt |-> "monthly", weekdays |-> {}, monthDay |-> 31],
    [repeatAt |-> "monthly", weekdays |-> {}, monthDay |-> 15] }

\* reference instants (UTC): an ordinary Friday morning, the last second of a
\* month, and instants around the two clock changes of Europe/London
RefInstants ==
  { StartTime,
    At(2026, 1, 30, 9, 0, 0),
    At(2026, 1, 31, 23, 59, 59),
    At(2026, 3, 28, 1, 30, 0),
    At(2026, 3, 29, 0, 59, 59),
    At(2026, 3, 29, 1, 30, 0),
    At(2026, 10, 25, 0, 30, 0),
    At(2026, 10, 25, 1, 30, 0) }

InitCalc ==
  /\ now \in RefInstants
  /\ steps = 0
  /\ phase = "loading"
  /\ rendered = FALSE
  /\ store = <<>>
  /\ timers = {}
  /\ timeouts = <<>>
  /\ permission = "granted"
  /\ host \in Zones
  /\ \E tm \in CalcTimes, rec \in CalcRecurrences :
       calc = [hour |-> tm[1], minute |-> tm[2], repeatAt |-> rec.repeatAt,
               weekdays |-> rec.weekdays, monthDay |-> rec.monthDay,
               first |-> NoNext, second |-> NoNext]
  /\ controller = FALSE
  /\ toSW = <<>>
  /\ toPage = <<>>
  /\ notificationsCache = <<>>
  /\ presented = <<>>
  /\ fires = <<>>
  /\ deleted = {}
  /\ lastOp = Idle

\* one call of computeNextAtTime whose reading of line 183 is `now`, and
\* whose later readings are cand and scan
computeCall(cand, scan) ==
  /\ calc # NoCalc
  /\ calc.second = NoNext
  /\ cand <= scan
  /\ LET result == computeNextAtTime(calc.hour, calc.minute, calc.repeatAt,
                                     calc.weekdays, calc.monthDay,
                                     [now |-> now, cand |-> cand, scan |-> scan])
     IN  calc' = IF calc.first = NoNext THEN [calc EXCEPT !.first = result]
                 ELSE [calc EXCEPT !.second = result]
  /\ UNCHANGED <<now, steps, phase, rendered, store, timers, timeouts, permission,
                 host, presented, fires, deleted, lastOp>>
  /\ UNCHANGED swVars

NextCalc ==
  \E cand \in {now, now + ClockDrift}, scan \in {now, now + ClockDrift} :
    computeCall(cand, scan)

SpecCalc == InitCalc /\ [][NextCalc]_vars

(***************************************************************************)
(* The storage helpers on their own: loadNotifications and                 *)
(* saveNotifications on every kind of content localStorage can hold under  *)
(* STORAGE_KEY.  A stored text is described by its syntax ("json": it      *)
(* parses; "garbage": JSON.parse throws; "empty": the empty string), its   *)
(* layout ("compact": as JSON.stringify writes; "spaced": the same value   *)
(* written with white space) and the value it denotes.                     *)
(***************************************************************************)
\* localStorage.getItem(STORAGE_KEY) when the key is absent: null
Absent == [syntax |-> "absent", layout |-> "none", value |-> <<>>]
Text(syntax, layout, value) == [syntax |-> syntax, layout |-> layout, value |-> value]
\* the JSON value null, as a number field reads it back
Null == [nan |-> FALSE, v |-> 0 - 1]

\* JSON.stringify's rendering of one record: NaN (and any number that is
\* not finite) is written as null
ToJSON(item) == [item EXCEPT !.nextTime = IF @.nan THEN Null ELSE @]

\* JSON.stringify(list)
stringify(list) == Text("json", "compact", [i \in DOMAIN list |-> ToJSON(list[i])])

\* loadNotifications(): [] when the key is absent or the text is empty
\* (!raw), [] when JSON.parse throws, else the parsed value
loadNotifications(raw) ==
  IF raw.syntax \in {"absent", "empty"} THEN <<>>
  ELSE IF raw.syntax = "garbage" THEN <<>>
  ELSE raw.value

\* the stored representation after saveNotifications(list)
saveNotifications(list) == stringify(list)

\* records as the page holds them in memory: the second has the nextTime
\* computeNextAtTime returns for an hour beyond Date's range (setHours gives
\* an invalid date, getTime() is NaN)
StoreItems ==
  { [id |-> 1, enabled |-> TRUE, nextTime |-> Num(StartTime)],
    [id |-> 2, enabled |-> TRUE, nextTime |-> NaN] }

MaxStored == 2
StoreLists == UNION { [1..n -> StoreItems] : n \in 0..MaxStored }

\* lists as JSON text can denote them
JSONLists == { [i \in DOMAIN l |-> ToJSON(l[i])] : l \in StoreLists }

StoredTexts ==
  { Absent, Text("empty", "none", <<>>), Text("garbage", "none", <<>>) }
    \cup { Text("json", layout, l) : layout \in {"compact", "spaced"}, l \in JSONLists }

InitStore ==
  /\ now = StartTime
  /\ steps = 0
  /\ phase = "loading"
  /\ rendered = FALSE
  /\ store = <<>>
  /\ timers = {}
  /\ timeouts = <<>>
  /\ permission = "granted"
  /\ host = "UTC"
  /\ \E raw \in StoredTexts :
       calc = [raw |-> raw, before |-> raw, list |-> <<>>, loaded |-> <<>>,
               op |-> "none"]
  /\ controller = FALSE
  /\ toSW = <<>>
  /\ toPage = <<>>
  /\ notificationsCache = <<>>
  /\ presented = <<>>
  /\ fires = <<>>
  /\ deleted = {}
  /\ lastOp = Idle

\* saveNotifications(loadNotifications())
saveLoaded ==
  /\ calc.op = "none"
  /\ calc' = [calc EXCEPT !.before = calc.raw,
                          !.loaded = loadNotifications(calc.raw),
                          !.raw = saveNotifications(loadNotifications(calc.raw)),
                          !.op = "saveLoaded"]
  /\ UNCHANGED <<now, steps, phase, rendered, store, timers, timeouts, permission,
                 host, presented, fires, deleted, lastOp>>
  /\ UNCHANGED swVars

\* saveNotifications(list) followed by loadNotifications()
loadSaved(list) ==
  /\ calc.op = "none"
  /\ calc' = [calc EXCEPT !.before = calc.raw,
                          !.list = list,
                          !.raw = saveNotifications(list),
                          !.loaded = loadNotifications(saveNotifications(list)),
                          !.op = "loadSaved"]
  /\ UNCHANGED <<now, steps, phase, rendered, store, timers, timeouts, permission,
                 host, presented, fires, deleted, lastOp>>
  /\ UNCHANGED swVars

NextStore ==
  \/ saveLoaded
  \/ \E list \in StoreLists : loadSaved(list)

SpecStore == InitStore /\ [][NextStore]_vars

(***************************************************************************)
(* The page left open and alone: reminders are created, none is toggled or *)
(* deleted, and the page is not closed.  The host runs what is due: the    *)
(* tail of init(), the clock, and every expired timer's callback, whose    *)
(* presentation step may throw.                                           *)
(***************************************************************************)
LiveReminders == 1     \* reminders created in one behaviour of the page left alone

LiveForms ==
  { AfterForm("m", "popup", Num(0), Num(1), Num(2)),
    AfterForm("m", "both", Num(0), Num(0), Num(0)),
    AfterForm("m", "browser", Num(1), Num(0), Num(1)),
    AfterForm("m", "both", Num(0), Num(1), Num(3)),
    AtForm("m", "both", Num(9), Num(0), "none", {}, NaN),
    AtForm("m", "browser", Num(8), Num(0), "none", {}, NaN),
    AtForm("m", "popup", Num(9), Num(0), "weekly", {1, 3}, NaN),
    AtForm("m", "popup", Num(9), Num(0), "monthly", {}, Num(31)) }

\* time passes until a pending timer is due
Elapse(d) ==
  /\ phase \in {"loading", "ready"}
  /\ \E t \in timers : t.due = now + d
  /\ d > 0
  /\ now' = now + d
  /\ lastOp' = Idle
  /\ UNCHANGED <<steps, phase, rendered, store, timers, timeouts, permission, host, calc,
                 presented, fires, deleted>>
  /\ UNCHANGED swVars

\* the callback of an expired timer runs, to its end or to a throw
Callback ==
  \/ \E t \in timers : TimerFire(t)
  \/ \E t \in timers, part \in {"notification", "popup"} : TimerFireThrows(t, part)

NextLive ==
  \/ \E form \in LiveForms, rnd \in RandomDraws :
       Cardinality(DOMAIN fires) < LiveReminders /\ Create(form, rnd, 1)
  \/ Callback
  \/ scheduleAllFromStorage
  \/ \E d \in Advances : Elapse(d)

\* the event loop runs a task that stays ready: init() resumes, time passes,
\* an expired timer's callback is called
SpecLive ==
  /\ Init /\ [][NextLive]_vars
  /\ WF_vars(scheduleAllFromStorage)
  /\ WF_vars(\E d \in Advances : Elapse(d))
  /\ WF_vars(Callback)

(***************************************************************************)
(* The page with relative-delay reminders only.                            *)
(***************************************************************************)
AfterForms ==
  { AfterForm("m", "popup", Num(0), Num(5), Num(0)),
    AfterForm("m", "popup", Num(0), Num(0), Num(2)),
    AfterForm("m", "both", Num(1), Num(1), Num(2)) }

NextAfter ==
  \/ \E form \in AfterForms, rnd \in RandomDraws : Create(form, rnd, 1)
  \/ \E t \in timers : TimerFire(t)
  \/ \E id \in Ids(store) : toggleEnable(id)
  \/ scheduleAllFromStorage
  \/ \E d \in Advances : Tick(d)

SpecAfter == Init /\ [][NextAfter]_vars

(***************************************************************************)
(* The page kept open under a service worker: the exchange that mirrors    *)
(* the stored list (updateNotifications -> requestNotifications ->         *)
(* deliverNotifications) over the two message channels.                    *)
(***************************************************************************)
MirrorReminders == 1   \* reminders created in one behaviour of the mirroring exchange
MirrorSteps == 2       \* user and clock events in one behaviour of the mirroring exchange

MirrorForms == { AtForm("m", "browser", Num(9), Num(0), "none", {}, NaN) }

NextMirror ==
  \/ \E form \in MirrorForms, rnd \in RandomDraws :
       /\ Cardinality(DOMAIN fires) < MirrorReminders
       /\ steps < MirrorSteps
       /\ Create(form, rnd, 1)
  \/ \E t \in timers : TimerFire(t)
  \/ \E id \in Ids(store) : steps < MirrorSteps /\ toggleEnable(id)
  \/ \E id \in Ids(store), ok \in BOOLEAN :
       steps < MirrorSteps /\ deleteNotification(id, ok)
  \/ scheduleAllFromStorage
  \/ \E d \in Advances : steps < MirrorSteps /\ Tick(d)
  \/ SWMessage
  \/ PageMessage

SpecMirror == InitSW /\ [][NextMirror]_vars

(***************************************************************************)
(* The page opened again after it was closed for a while: the store holds  *)
(* one reminder that an earlier visit created at StartTime, and the clock  *)
(* reads a later instant.                                                  *)
(***************************************************************************)
StartupForms ==
  { AfterForm("m", "popup", Num(0), Num(5), Num(0)),
    AfterForm("m", "popup", Num(0), Num(1), Num(2)),
    AtForm("m", "popup", Num(9), Num(0), "none", {}, NaN),
    AtForm("m", "popup", Num(9), Num(0), "weekly", {1, 3}, NaN),
    AtForm("m", "popup", Num(9), Num(0), "monthly", {}, Num(31)),
    AtForm("m", "popup", Num(9), Num(0), "monthly", {}, Num(15)) }

\* the instants the page is opened again: an hour later, three days later at
\* 09:00, and two and a half weeks later
ReopenTimes ==
  { At(2026, 1, 30, 10, 0, 0),
    At(2026, 2, 2, 9, 0, 0),
    At(2026, 2, 16, 12, 0, 0),
    At(2026, 2, 20, 12, 0, 0) }

InitStartup ==
  /\ now \in ReopenTimes
  /\ steps = 0
  /\ phase = "loading"
  /\ rendered = FALSE
  /\ host = "UTC"
  /\ \E form \in StartupForms :
       store = << NewItem(form, generateId(StartTime, 0), StartTime) >>
  /\ timers = {}
  /\ timeouts = <<>>
  /\ permission = "granted"
  /\ calc = NoCalc
  /\ controller = FALSE
  /\ toSW = <<>>
  /\ toPage = <<>>
  /\ notificationsCache = <<>>
  /\ presented = <<>>
  /\ fires = <<>>
  /\ deleted = {}
  /\ lastOp = Idle

NextStartup ==
  \/ scheduleAllFromStorage
  \/ \E t \in timers : TimerFire(t)
  \/ \E d \in Advances : Tick(d)

SpecStartup == InitStartup /\ [][NextStartup]_vars

(***************************************************************************)
(* The periodic-sync pass of the service worker over the list the page     *)
(* delivered to it: a reminder due within the allowance and one due a      *)
(* minute later.                                                           *)
(***************************************************************************)
SyncReminders == 1     \* reminders created in one behaviour with periodic sync
SyncSteps == 2         \* user and clock events in one behaviour with periodic sync

SyncForms ==
  { AtForm("m", "browser", Num(9), Num(0), "none", {}, NaN),
    AtForm("m", "browser", Num(9), Num(1), "none", {}, NaN) }

NextSync ==
  \/ \E form \in SyncForms, rnd \in RandomDraws :
       /\ Cardinality(DOMAIN fires) < SyncReminders
       /\ steps < SyncSteps
       /\ Create(form, rnd, 1)
  \/ \E t \in timers : TimerFire(t)
  \/ \E id \in Ids(store) : steps < SyncSteps /\ toggleEnable(id)
  \/ scheduleAllFromStorage
  \/ \E d \in Advances : steps < SyncSteps /\ Tick(d)
  \/ SWMessage
  \/ PageMessage
  \/ handlePeriodicSync

SpecSync == InitSW /\ [][NextSync]_vars

(***************************************************************************)
(* Properties.                                                             *)
(***************************************************************************)
Untouched(id) == id \in DOMAIN fires /\ ~fires[id].touched
Recurring(r) == r.mode = "at" /\ r.repeatAt \in {"weekly", "monthly"}

\* C1: at most one pending timer exists for any reminder id, whatever
\* creates, toggles, deletes, startup reconciles and expiries came before.
C1_OneTimerPerId ==
  \A t1 \in timers : \A t2 \in timers : t1.item.id = t2.item.id => t1 = t2

\* a reminder created while init() was still waiting is armed a second time
\* by the startup reconcile, and holds one timer
C1_Witness ==
  /\ lastOp.op = "startup"
  /\ \E i \in DOMAIN store :
       /\ store[i].enabled
       /\ Cardinality(Pending(store[i].id)) = 1
       /\ store[i].id[1] = StartTime

\* C2: no occurrence (one nextTime of one arm cycle of a reminder) is presented
\* twice, by the page's timer callback and the worker's periodic-sync pass
\* together.
C2_PresentedOnce == \A k \in DOMAIN presented : presented[k] <= 1

\* the number of timer callbacks a relative-delay reminder runs in all
Total(r) == Max(1, r.after.loopCount)

\* C3: a relative-delay reminder the user leaves alone fires once when
\* loopCount = 0 and loopCount times otherwise: it never fires more often, it
\* is enabled exactly while fires are left (remainingLoops counting them), and
\* once disabled it has fired that many times and holds no timer.
C3_LoopCount ==
  \A i \in DOMAIN store :
    LET r == store[i]
    IN  (r.mode = "after" /\ Untouched(r.id)) =>
          /\ FiresOf(r.id) <= Total(r)
          /\ r.enabled <=> FiresOf(r.id) < Total(r)
          /\ (r.enabled /\ r.after.loopCount > 0) =>
               r.after.remainingLoops = r.after.loopCount - FiresOf(r.id)
          /\ ~r.enabled => Pending(r.id) = {}

\* a reminder with loopCount = 2 has fired twice and is retired
C3_Witness ==
  \E i \in DOMAIN store :
    /\ store[i].mode = "after" /\ store[i].after.loopCount = 2
    /\ Untouched(store[i].id)
    /\ FiresOf(store[i].id) = 2
    /\ ~store[i].enabled

\* C4: an absolute-time reminder with repeatAt = 'none' the user leaves alone
\* fires at most once, and once it has fired it is stored disabled and holds
\* no timer; whenever the timer callback of such a reminder completes (also
\* after a re-enable) the record is stored disabled with no timer pending.
C4_FiresOnce ==
  \A i \in DOMAIN store :
    LET r == store[i]
    IN  /\ (r.mode = "at" /\ r.repeatAt = "none" /\ Untouched(r.id)) =>
              /\ FiresOf(r.id) <= 1
              /\ r.enabled <=> FiresOf(r.id) = 0
              /\ ~r.enabled => Pending(r.id) = {}
        /\ (r.mode = "at" /\ r.repeatAt = "none"
              /\ lastOp.op = "fire" /\ lastOp.id = r.id) =>
              ~r.enabled /\ Pending(r.id) = {}

\* its timer callback has just completed
C4_Witness ==
  /\ lastOp.op = "fire"
  /\ \E i \in DOMAIN store :
       /\ store[i].id = lastOp.id
       /\ store[i].mode = "at" /\ store[i].repeatAt = "none"
       /\ FiresOf(store[i].id) = 1
       /\ ~store[i].enabled

\* C5: when the timer callback of a weekly or monthly reminder completes, the
\* stored record is still enabled, its nextTime is strictly later than the
\* instant of the fire, and one timer is pending for it, armed for that nextTime.
C5_RecurringRearmed ==
  \A i \in DOMAIN store :
    LET r == store[i]
    IN  (lastOp.op = "fire" /\ lastOp.id = r.id /\ Recurring(r)) =>
          /\ r.enabled
          /\ r.nextTime > now
          /\ Cardinality(Pending(r.id)) = 1
          /\ \A t \in Pending(r.id) : t.item.nextTime = r.nextTime

\* a weekly reminder has fired exactly at its nextTime and was recomputed
C5_Witness ==
  \E i \in DOMAIN store :
    /\ lastOp.op = "fire" /\ lastOp.id = store[i].id
    /\ store[i].repeatAt = "weekly"
    /\ now = At(2026, 2, 2, 9, 0, 0)
    /\ store[i].nextTime = At(2026, 2, 4, 9, 0, 0)

\* C6: a stored reminder with enabled = false has no pending timer in any
\* reachable state; in particular the timer of an armed reminder is gone when
\* the toggleEnable that disables it returns.
C6_DisabledHoldsNoTimer ==
  \A i \in DOMAIN store : ~store[i].enabled => Pending(store[i].id) = {}

\* an armed reminder was disabled before its timer expired
C6_Witness ==
  /\ lastOp.op = "disable"
  /\ \E i \in DOMAIN store :
       /\ store[i].id = lastOp.id
       /\ ~store[i].enabled
       /\ FiresOf(store[i].id) = 0
       /\ store[i].nextTime > now

\* C7: after a confirmed delete the record is not in the store again, no timer
\* is pending for its id, and no timer callback runs for it.
C7_DeletedStaysGone ==
  \A r \in deleted :
    /\ r.id \notin Ids(store)
    /\ Pending(r.id) = {}
    /\ ~(lastOp.op = "fire" /\ lastOp.id = r.id)

\* an armed reminder whose timer was due was deleted before the timer's
\* callback ran, while another reminder stays in the store
C7_Witness ==
  /\ lastOp.op = "delete"
  /\ store # <<>>
  /\ \E r \in deleted : r.id = lastOp.id /\ r.enabled /\ r.nextTime <= now

\* C8: whenever the page has finished its startup reconcile, every reminder
\* stored with enabled = true has exactly one pending timer keyed by its id.
C8_EnabledHoldsOneTimer ==
  phase = "ready" =>
    \A i \in DOMAIN store :
      store[i].enabled => Cardinality(Pending(store[i].id)) = 1

\* the startup reconcile has armed a stored reminder that is already due
C8_Witness ==
  /\ phase = "ready"
  /\ lastOp.op = "startup"
  /\ \E i \in DOMAIN store :
       /\ store[i].enabled
       /\ store[i].nextTime < now
       /\ Cardinality(Pending(store[i].id)) = 1

\* C9 (as claimed): every nextTime computed at creation, at re-enable or after
\* a fire is strictly greater than the clock reading used to compute it, for
\* relative delays (0h0m included) and for absolute times.
C9_StrictlyAfterNow == lastOp.next # NoNext => lastOp.next > lastOp.at

\* C9 (amended): every computed nextTime is strictly greater than the clock
\* reading used, except for a relative delay of 0h0m, where it equals it.
C9_AfterNowUnlessZeroDelay ==
  lastOp.next # NoNext =>
    LET r == Rec(store, lastOp.id)
    IN  /\ lastOp.id \in Ids(store)
        /\ r.nextTime = lastOp.next
        /\ IF r.mode = "after" /\ r.after.hours = 0 /\ r.after.minutes = 0
           THEN lastOp.next = lastOp.at
           ELSE lastOp.next > lastOp.at

\* a weekly reminder was recomputed by its timer callback at the very instant
\* it was due
C9_Witness ==
  /\ lastOp.op = "fire"
  /\ lastOp.at = At(2026, 2, 2, 9, 0, 0)
  /\ lastOp.next = At(2026, 2, 4, 9, 0, 0)

\* C10: the stored history is append-only: every fire of a stored reminder has
\* left one entry that no later step removed, so the history is as long as
\* the number of fires.
C10_HistoryAppendOnly ==
  \A i \in DOMAIN store : Len(store[i].history) = FiresOf(store[i].id)

\* C11: when a presentation step throws during a fire, the timer callback
\* still completes its cycle: the stored record is then either retired
\* (enabled = false) or re-armed with one pending timer.
C11_FailureSwallowed ==
  (lastOp.op = "fireThrew" /\ lastOp.id \in Ids(store)) =>
    LET r == Rec(store, lastOp.id)
    IN  r.enabled => Cardinality(Pending(r.id)) = 1

\* C12: when a store write throws during create, toggleEnable or the update
\* after a fire, the reminder's stored state and its timer stay consistent:
\* no timer is pending for an id that was not written, a pending timer is
\* armed for the stored nextTime, a stored enabled reminder has its timer
\* (once startup has reconciled) and a stored disabled one has none.
C12_StoreFailureConsistent ==
  lastOp.op \in {"createSaveThrew", "toggleSaveThrew", "fireSaveThrew"} =>
    IF lastOp.id \in Ids(store)
    THEN LET r == Rec(store, lastOp.id)
         IN  /\ \A t \in Pending(r.id) : t.item.nextTime = r.nextTime
             /\ (r.enabled /\ phase = "ready") => Cardinality(Pending(r.id)) = 1
             /\ ~r.enabled => Pending(r.id) = {}
    ELSE Pending(lastOp.id) = {}

\* the inputs C13 calls malformed
Malformed(form) ==
  \/ trim(form.message) = ""
  \/ /\ form.mode = "at"
     /\ \/ form.hourAt.nan \/ form.minuteAt.nan
        \/ form.repeatAt = "weekly" /\ form.checked = {}
        \/ /\ form.repeatAt = "monthly"
           /\ (form.monthDay.nan \/ form.monthDay.v < 1 \/ form.monthDay.v > 31)

\* C13: a create request whose message is empty after trimming, whose hour or
\* minute is not a number, whose weekly recurrence has no weekday or whose
\* monthly day is not in 1..31 leaves the store, the timers and the ids as
\* they were.
C13_MalformedRejected ==
  [][\A form \in BadForms \cup GoodForms, rnd \in CreateDraws, wait \in CreateWaits :
       (Malformed(form) /\ Create(form, rnd, wait)) =>
         UNCHANGED <<store, timers, timeouts, fires, toSW>>]_vars

\* a monthly form with day 32 was rejected after a reminder had been created
C13_Witness ==
  /\ lastOp.op = "needMonthDay"
  /\ Len(store) = 1
  /\ Cardinality(timers) = 1

\* C14: the startup reconcile leaves the store as it is and arms, for every
\* stored reminder with enabled = true, one timer that carries the stored
\* record (its persisted nextTime, remainingLoops and enabled) and is due at
\* that nextTime, or at once when it has passed; it arms nothing for a
\* disabled reminder.
C14_StartupArmsPersisted ==
  [][scheduleAllFromStorage =>
       /\ store' = store
       /\ \A i \in DOMAIN store :
            LET r == store[i]
                armed == { t \in timers' : t.item.id = r.id }
            IN  IF r.enabled
                THEN /\ Cardinality(armed) = 1
                     /\ \A t \in armed :
                          /\ t.item = r
                          /\ r.nextTime - now <= SecPerDay =>
                               t.due = Max(now, r.nextTime)
                ELSE armed = {}]_vars

\* startup has reconciled a store that holds a retired reminder and an
\* enabled one whose nextTime is still ahead
C14_Witness ==
  /\ lastOp.op = "startup"
  /\ \E i \in DOMAIN store : ~store[i].enabled /\ Pending(store[i].id) = {}
  /\ \E i \in DOMAIN store :
       /\ store[i].enabled
       /\ store[i].nextTime > now
       /\ \E t \in Pending(store[i].id) : t.due = store[i].nextTime

\* C15: toggleEnable(id) flips the stored enabled flag of that record and
\* leaves the other records alone.  When the record becomes enabled its
\* nextTime is computed from the current time (relative: now + delay, with
\* remainingLoops back at loopCount; absolute: the next occurrence strictly
\* after now), the record is stored and one timer carrying it is armed; when
\* it becomes disabled no timer is left for it.  For an id that is not in the
\* store nothing changes.
C15_ToggleEnable ==
  [][\A id \in Ids(store) \cup DeletedIds :
       (toggleEnable(id) \/ toggleEnableMissing(id)) =>
         IF id \in Ids(store)
         THEN LET idx == findIndex(store, id)
                  r == store[idx]
                  r2 == store'[idx]
                  armed == { t \in timers' : t.item.id = id }
              IN  /\ Len(store') = Len(store)
                  /\ \A i \in DOMAIN store : i # idx => store'[i] = store[i]
                  /\ r2.id = id
                  /\ r2.enabled = ~r.enabled
                  /\ r2.enabled =>
                       /\ IF r.mode = "after"
                          THEN /\ r2.nextTime =
                                    now + (r.after.hours * 60 + r.after.minutes) * 60
                               /\ r2.after.remainingLoops = r.after.loopCount
                          ELSE /\ r2.nextTime =
                                    computeNextAtTime(r.at.hour, r.at.minute, r.repeatAt,
                                                      r.weekdays, r.monthDay, Reading(now))
                               /\ r2.nextTime > now
                       /\ Cardinality(armed) = 1
                       /\ \A t \in armed : t.item = r2
                  /\ ~r2.enabled => armed = {} /\ r2 = [r EXCEPT !.enabled = FALSE]
         ELSE UNCHANGED <<store, timers, timeouts>>]_vars

\* a looping reminder that had fired once and was disabled has been enabled
\* again with all its loops
C15_Witness ==
  /\ lastOp.op = "enable"
  /\ \E i \in DOMAIN store :
       /\ store[i].id = lastOp.id
       /\ FiresOf(store[i].id) = 1
       /\ store[i].after.loopCount = 2
       /\ store[i].after.remainingLoops = 2
       /\ store[i].enabled

\* C16: no two records of the store have the same id, also when two
\* reminders are created within one reading of the clock.
C16_UniqueIds ==
  \A i \in DOMAIN store : \A j \in DOMAIN store :
    store[i].id = store[j].id => i = j

\* the time of day hour:minute, in seconds from local midnight
WallClock == calc.hour * SecPerHour + calc.minute * SecPerMinute
\* the local calendar day of the reference instant
Today == DayOf(LocalTime(now))
\* the instants at which the host's local time is hour:minute on local day d;
\* on the day the clocks are set forward over hour:minute, the instant Date
\* gives for it (the local time one hour later)
InstantsAt(d) ==
  LET exact == { t \in { d * SecPerDay + WallClock - off : off \in {0, SecPerHour} } :
                   LocalTime(t) = d * SecPerDay + WallClock }
  IN  IF exact # {} THEN exact ELSE { UTC(d * SecPerDay + WallClock) }

\* C17: for repeatAt = 'none' the result is today at hour:minute when that
\* instant is strictly after now and otherwise tomorrow at hour:minute; it is
\* strictly after now and at most 24 hours after now.
C17_NoneWithinADay ==
  (calc # NoCalc /\ calc.repeatAt = "none" /\ calc.first # NoNext) =>
    LET r == calc.first
    IN  /\ r > now
        /\ r - now <= SecPerDay
        /\ IF \E t \in InstantsAt(Today) : t > now
           THEN r \in InstantsAt(Today)
           ELSE r \in InstantsAt(Today + 1)

\* the instants strictly after now at which the host's local time is
\* hour:minute on one of the next eight local days whose weekday is chosen
WeeklyInstants ==
  UNION { { t \in InstantsAt(d) : t > now } :
            d \in { x \in Today..(Today + 7) : (x + 4) % 7 \in calc.weekdays } }

\* C18: for weekly recurrence with a non-empty weekday set the result is the
\* earliest instant strictly after now that is at hour:minute on a day whose
\* weekday is in the set; it is at most 7 days after now, and the 14-day scan
\* finds a day (the fallback is not taken).
C18_WeeklyEarliest ==
  (calc # NoCalc /\ calc.repeatAt = "weekly" /\ calc.first # NoNext) =>
    LET r == calc.first
    IN  /\ r > now
        /\ r - now <= 7 * SecPerDay
        /\ r \in WeeklyInstants
        /\ \A t \in WeeklyInstants : r <= t
        /\ WeeklyHits(calc.hour, calc.minute, calc.weekdays, Reading(now)) # {}

\* C19: two calls of computeNextAtTime with the same schedule and the same
\* reference instant return the same instant, whatever the clock reads
\* later in either call.
C19_Deterministic ==
  (calc # NoCalc /\ calc.first # NoNext /\ calc.second # NoNext) =>
    calc.first = calc.second

\* C20: when the page has handled the 'triggeredBySW' message the worker
\* posts for a reminder it presented, the stored record of that reminder has
\* a history entry and is no longer due: it is disabled or its nextTime lies
\* beyond the worker's allowance.
C20_TriggeredTakenIn ==
  [][(PageMessage /\ Head(toPage).type = "triggeredBySW"
        /\ Head(toPage).payload[1] \in Ids(store)) =>
       LET id == Head(toPage).payload[1]
       IN  /\ id \in Ids(store')
           /\ Rec(store', id).history # <<>>
           /\ \/ ~Rec(store', id).enabled
              \/ Rec(store', id).nextTime > now + AllowanceSec]_vars

\* C21: saveNotifications(loadNotifications()) leaves the stored
\* representation as it was, also when the key is absent or the text does
\* not parse, and loadNotifications() after saveNotifications(L) returns L.
C21_RoundTrip ==
  /\ (calc # NoCalc /\ calc.op = "saveLoaded") => calc.raw = calc.before
  /\ (calc # NoCalc /\ calc.op = "loadSaved") => calc.loaded = calc.list

\* C22: a timer is armed for max(0, nextTime - now), so no pending timer is
\* due before the nextTime of the record it carries, whatever the delay
\* (monthly occurrences more than 2^31 - 1 ms ahead included).
C22_NeverEarly == \A t \in timers : t.due >= t.item.nextTime

\* C23: while the page stays open and no reminder is disabled or deleted,
\* every enabled reminder eventually fires (once more, as long as the bound
\* on callbacks allows), and every non-recurring reminder is eventually
\* stored with enabled = false and holds no timer.
C23_EventuallyFiresAndRetires ==
  \A i \in 1..LiveReminders :
    /\ \A n \in 0..(MaxFires - 1) :
         (Len(store) >= i /\ store[i].enabled /\ FiresOf(store[i].id) = n)
           ~> (Len(store) >= i /\ FiresOf(store[i].id) > n)
    /\ (Len(store) >= i /\ ~Recurring(store[i]))
           ~> (Len(store) >= i /\ ~store[i].enabled /\ Pending(store[i].id) = {})

\* C24: a relative-delay reminder's nextTime is the clock reading of the
\* computation plus hours*3600 s + minutes*60 s: at creation, at re-enable
\* and, for a repeat, when the timer callback runs (not the previous nextTime
\* plus the delay); the timer armed is due at that nextTime (for a delay the
\* host's timer takes as it is).  A fire with no repeat left stores
\* enabled = false and leaves no timer.
C24_RelativeFromNow ==
  [][(/\ lastOp'.op \in {"create", "enable", "fire"}
      /\ lastOp'.id \in Ids(store')
      /\ Rec(store', lastOp'.id).mode = "after") =>
       LET r2 == Rec(store', lastOp'.id)
           delay == r2.after.hours * 3600 + r2.after.minutes * 60
           armed == { t \in timers' : t.item.id = r2.id }
       IN  IF lastOp'.op = "fire" /\ ~r2.enabled
           THEN armed = {}
           ELSE /\ r2.enabled
                /\ r2.nextTime = now + delay
                /\ Cardinality(armed) = 1
                /\ \A t \in armed :
                     /\ t.item = r2
                     /\ TimerDelay(delay) = delay => t.due = r2.nextTime]_vars

\* a reminder created with 0h5m and loopCount 0 has fired once, exactly at
\* creation time + 300 s, and is retired
C24_Witness ==
  /\ lastOp.op = "fire"
  /\ \E i \in DOMAIN store :
       /\ store[i].id = lastOp.id
       /\ store[i].after.minutes = 5 /\ store[i].after.loopCount = 0
       /\ store[i].nextTime = store[i].id[1] + 300
       /\ now = store[i].nextTime
       /\ FiresOf(store[i].id) = 1
       /\ ~store[i].enabled
       /\ Pending(store[i].id) = {}

\* the month of an instant, counted from year 0
MonthOf(t) == getFullYear(t) * 12 + getMonth(t)

\* C25: for monthly recurrence the result is at hour:minute on day-of-month
\* monthDay, strictly after now: in the current month when that instant is
\* after now, otherwise in the following month, whatever the month's length.
C25_MonthlyOnDay ==
  (calc # NoCalc /\ calc.repeatAt = "monthly" /\ calc.first # NoNext) =>
    LET r == calc.first
        thisMonth == DaysFromCivil(getFullYear(now), getMonth(now) + 1, calc.monthDay)
    IN  /\ r > now
        /\ getDate(r) = calc.monthDay
        /\ r \in InstantsAt(DayOf(LocalTime(r)))
        /\ IF \E t \in InstantsAt(thisMonth) : t > now
           THEN MonthOf(r) = MonthOf(now)
           ELSE MonthOf(r) = MonthOf(now) + 1

C27_TimerMatchesStore ==
  \A t \in timers :
    \E i \in DOMAIN store :
      /\ store[i].id = t.item.id
      /\ store[i].enabled
      /\ store[i].nextTime = t.item.nextTime

\* a weekly reminder was recomputed and armed again by its timer callback,
\* while a second reminder holds the timer its creation armed
C27_Witness ==
  /\ lastOp.op = "fire"
  /\ Cardinality(timers) = 2
  /\ \E t \in timers :
       /\ t.item.id = lastOp.id
       /\ t.item.nextTime = lastOp.next
       /\ t.item.nextTime > now
       /\ Rec(store, t.item.id).nextTime = lastOp.next

\* the records of list whose id is not id, in their order
Others(list, id) == SelectSeq(list, LAMBDA r : r.id # id)

\* C28: a create, a toggleEnable, a delete or a timer expiry for reminder X
\* leaves the stored records of every other id (all their fields and their
\* relative order) and the pending timers of every other id as they were.
C28_OthersUntouched ==
  [][lastOp'.op \in {"create", "enable", "disable", "delete", "keep", "fire"} =>
       LET X == lastOp'.id
       IN  /\ Others(store', X) = Others(store, X)
           /\ { t \in timers' : t.item.id # X } = { t \in timers : t.item.id # X }
           /\ \A id \in (DOMAIN timeouts \cup DOMAIN timeouts') \ {X} :
                /\ id \in DOMAIN timeouts /\ id \in DOMAIN timeouts'
                /\ timeouts'[id] = timeouts[id]]_vars

\* a reminder was deleted while another reminder, created before it, stays
\* stored with its timer pending
C28_Witness ==
  /\ lastOp.op = "delete"
  /\ Len(store) = 1
  /\ store[1].id # lastOp.id
  /\ store[1].enabled
  /\ Cardinality(Pending(store[1].id)) = 1
  /\ \E r \in deleted : r.id = lastOp.id /\ r.id[1] > store[1].id[1]

\* whether the callback that has just fired r's timer left r to fire again
Repeats(r) ==
  \/ Recurring(r)
  \/ r.mode = "after" /\ r.after.loopCount > 0 /\ r.enabled

\* C29: at startup an enabled reminder whose stored nextTime has passed is
\* armed with delay 0 and fires once at that instant, however long the page
\* was closed: after that fire a reminder that repeats is stored with a
\* nextTime in the future and its timer is not due before it, and one that
\* does not repeat is retired and holds no timer.
C29_CatchUpOnce ==
  steps = 0 =>
    \A i \in DOMAIN store :
      LET r == store[i]
      IN  /\ (phase = "ready" /\ FiresOf(r.id) = 0 /\ r.enabled /\ r.nextTime < now) =>
               \E t \in Pending(r.id) : t.due = now
          /\ FiresOf(r.id) <= 1
          /\ FiresOf(r.id) = 1 =>
               IF Repeats(r)
               THEN /\ r.enabled
                    /\ r.nextTime > now
                    /\ \A t \in Pending(r.id) : t.due >= r.nextTime
               ELSE ~r.enabled /\ Pending(r.id) = {}

\* C30: a periodic-sync pass presents only items of the worker's mirrored list
\* that are enabled there and whose nextTime is no later than the pass's
\* clock reading plus the 5 s allowance: every occurrence whose presentation
\* count grows in the pass, and every 'triggeredBySW' message the pass posts,
\* belongs to such an item.
C30_SyncPresentsOnlyDue ==
  [][handlePeriodicSync =>
       LET Due(k) == \E i \in DOMAIN notificationsCache :
                       /\ Occurrence(notificationsCache[i]) = k
                       /\ notificationsCache[i].enabled
                       /\ notificationsCache[i].nextTime <= now + AllowanceSec
           DueId(id) == \E i \in DOMAIN notificationsCache :
                          /\ notificationsCache[i].id = id
                          /\ notificationsCache[i].enabled
                          /\ notificationsCache[i].nextTime <= now + AllowanceSec
       IN  /\ \A k \in DOMAIN presented' :
                Count(presented', k) > Count(presented, k) => Due(k)
           /\ \A j \in (Len(toPage) + 1)..Len(toPage') :
                /\ toPage'[j].type = "triggeredBySW"
                /\ DueId(toPage'[j].payload[1])]_vars

\* a pass has just shown a due item of the mirror and told the page
C30_Witness ==
  /\ lastOp.op = "sync"
  /\ toPage # <<>>
  /\ toPage[Len(toPage)].type = "triggeredBySW"
  /\ \E i \in DOMAIN notificationsCache :
       /\ notificationsCache[i].id = toPage[Len(toPage)].payload[1]
       /\ notificationsCache[i].enabled
       /\ notificationsCache[i].nextTime <= now + AllowanceSec
       /\ Count(presented, Occurrence(notificationsCache[i])) >= 1

====
